---------------------------- MODULE Spec2Model ----------------------------
(* NestAlerts: the poll cycle (run_once) of main.py and of meeting_alerts.py, *)
(* the daily ledger of alerted titles (load_seen / save_seen / mark_alerted), *)
(* the delivery pipeline (speak / _speak_fallback) and the wording of the     *)
(* lead time (_humanize_timedelta).                                           *)
(*                                                                            *)
(* Time is counted in whole seconds; a calendar date is the day number        *)
(* now \div 86400 and a time of day is now % 86400 (isoformat() and           *)
(* strftime("%H:%M:%S") are one-to-one with these).  A title is the sequence  *)
(* of its characters.  The items of the calendar response are drawn when the  *)
(* loop of run_once reads them: the response is immutable, read once, in      *)
(* order, and by nothing else.                                                *)
EXTENDS Integers, Sequences, FiniteSets, TLC

VARIABLES
    prog,                  \* which script runs: "main" or "meeting_alerts"
    DEBUG_MODE,            \* debug_config flags, read once at import
    RESET_CACHE_ON_START,
    REPEAT_ALERTS,
    now,                   \* tz_now(), in seconds
    file,                  \* CACHE_FILE, the durable ledger
    ledgerChanged,         \* this run_once has written or deleted CACHE_FILE
    pc,                    \* position of the invocation of run_once
    seen,                  \* run_once's local: the mapping load_seen returned
    e,                     \* run_once's loop variable: the event last read
    floor,                 \* start of the latest timed item read (orderBy=startTime)
    unread,                \* items of the response the loop has not read yet
    speakCalls,            \* calls of speak made by this run_once
    fbCalls,               \* calls of _speak_fallback made by this speak
    fbSite,                \* call site of the running _speak_fallback
    failed,                \* this speak met a failure before a completed cast
    delivered,             \* this speak completed a cast or a fallback cast
    blocked,               \* this speak is in a wait that never returns
    castIssued,            \* this speak has sent a command to the device
    probes,                \* start_flask_server: passes of the readiness loop made
    healthy,               \* start_flask_server: the last GET /healthz answered 200
    inv,                   \* two invocations side by side: each one's pc, seen and e
    overlapped,            \* one of the two started while the other was running
    seconds,               \* _humanize_timedelta's argument, in 1/Sub of a second
    phrase                 \* what _humanize_timedelta returned for it

vars == <<prog, DEBUG_MODE, RESET_CACHE_ON_START, REPEAT_ALERTS, now, file,
          ledgerChanged, pc,
          seen, e, floor, unread, speakCalls, fbCalls, fbSite, failed, delivered,
          blocked, castIssued, probes, healthy, inv, overlapped, seconds,
          phrase>>

config == <<prog, DEBUG_MODE, RESET_CACHE_ON_START, REPEAT_ALERTS>>
speakVars == <<fbCalls, fbSite, failed, delivered, blocked>>
phraseVars == <<seconds, phrase>>
flaskVars == <<probes, healthy>>
overlapVars == <<inv, overlapped>>

-----------------------------------------------------------------------------
(* Bounds of the model *)

\* items in one calendar response
MaxEvents == 2
\* times the scheduler lets the clock advance between invocations
MaxTicks == 2
\* seconds between two invocations of the external scheduler
PollSeconds == 60
\* longest lead time handed to _humanize_timedelta, in seconds
MaxSeconds == 7320
\* parts of a second told apart in a lead time
Sub == 2

-----------------------------------------------------------------------------
(* Configuration *)

LEAD_MINUTES == 5
\* range(50) in start_flask_server
MaxProbes == 50
tolerance == 60

EXCLUDE_KEYWORDS ==
    << <<"a","l","m","o","ç","o">>, <<"a","l","m","o","c","o">>, <<"l","u","n","c","h">> >>

UpperCase == <<"A","B","C","D","E","F","G","H","I","J","K","L","M",
               "N","O","P","Q","R","S","T","U","V","W","X","Y","Z","Ç">>
LowerCase == <<"a","b","c","d","e","f","g","h","i","j","k","l","m",
               "n","o","p","q","r","s","t","u","v","w","x","y","z","ç">>

\* str.lower()
lower(s) ==
    [i \in 1..Len(s) |->
        IF \E j \in 1..Len(UpperCase) : UpperCase[j] = s[i]
        THEN LowerCase[CHOOSE j \in 1..Len(UpperCase) : UpperCase[j] = s[i]]
        ELSE s[i]]

\* k in s, for strings
Contains(k, s) ==
    \E i \in 1..(Len(s) - Len(k) + 1) : SubSeq(s, i, i + Len(k) - 1) = k

\* variant: the title compared as written, without lower()
CaseSensitiveCheck(summary) ==
    \E j \in 1..Len(EXCLUDE_KEYWORDS) : Contains(EXCLUDE_KEYWORDS[j], summary)
\* any(k in summary.lower() for k in EXCLUDE_KEYWORDS)
is_excluded(summary) ==
    \E j \in 1..Len(EXCLUDE_KEYWORDS) : Contains(EXCLUDE_KEYWORDS[j], lower(summary))

-----------------------------------------------------------------------------
(* The calendar's events *)

Standup   == <<"S","t","a","n","d","u","p">>
Review    == <<"R","e","v","i","e","w">>
TeamLunch == <<"T","e","a","m"," ","L","u","n","c","h">>
Titles    == {Standup, Review, TeamLunch}

\* start.dateTime of an item, relative to now: the ends of the two scripts'
\* alert windows and the seconds next to them
StartOffsets ==
    { -(tolerance + 1), -tolerance, 0, LEAD_MINUTES * 60,
      LEAD_MINUTES * 60 + tolerance, LEAD_MINUTES * 60 + tolerance + 1 }

\* An item of the response.  dateTime is <<t>> for a timed event and <<>> for
\* an all-day event, whose start holds a date only.
Events(t, fl) ==
    [status : {"confirmed", "cancelled"},
     dateTime : {<<>>} \cup {<<t + d>> : d \in {x \in StartOffsets : t + x >= fl}},
     summary : Titles]

NoEvent == [status |-> "none", dateTime |-> <<>>, summary |-> <<>>]

\* no second invocation is looked at
NoInvocations == <<>>

\* no lead time has been put into words
NoPhrase == "none"

-----------------------------------------------------------------------------
(* The ledger *)

today(t) == t \div 86400
timeOfDay(t) == t % 86400

EmptyDict == <<>>

\* variant: every stored entry kept, whatever its date
AllEntries(data, t) == data
\* {k: v for k, v in data.items() if v.get("date") == today}
TodaysEntries(data, t) ==
    [k \in {x \in DOMAIN data : data[x].date = today(t)} |-> data[k]]

\* variant: the entries that can be read are kept, the others passed over
LenientLoad(f, t) == IF ~f.exists THEN EmptyDict ELSE TodaysEntries(f.data, t)
\* load_seen(): a missing file, and a file that does not parse or holds an
\* entry that is no mapping, give {}
load_seen(f, t) ==
    IF ~f.exists THEN EmptyDict
    ELSE IF ~f.wellformed THEN EmptyDict
    ELSE TodaysEntries(f.data, t)

\* save_seen(seen): the file rewritten in full
save_seen(s) == [exists |-> TRUE, wellformed |-> TRUE, data |-> s]

\* variant: an entry the mapping already holds is left as it is
KeepFirstEntry(s, key, t) ==
    [k \in DOMAIN s \cup {key} |->
        IF k \in DOMAIN s THEN s[k] ELSE [date |-> today(t), time |-> timeOfDay(t)]]
\* seen[key] = {"date": ..., "time": ...}
WithEntry(s, key, t) ==
    [k \in DOMAIN s \cup {key} |->
        IF k = key THEN [date |-> today(t), time |-> timeOfDay(t)] ELSE s[k]]

MissingFile == [exists |-> FALSE, wellformed |-> FALSE, data |-> EmptyDict]

\* a file that json.loads rejects, or whose entries are not all mappings (v.get
\* raises): data holds the entries of it that are well-formed, which the
\* except of load_seen gives up with the rest
CorruptFile(t) ==
    [exists |-> TRUE, wellformed |-> FALSE,
     data |-> [k \in {Standup} |-> [date |-> today(t), time |-> timeOfDay(t) - PollSeconds]]]

\* Ledgers the first invocation may find: none, an unreadable one, or one that
\* an earlier run wrote: empty, or with an entry of the day before or of the
\* same day.
InitLedgers(t) ==
    {MissingFile, CorruptFile(t), save_seen(EmptyDict)} \cup
    { save_seen([k \in {Standup} |-> [date |-> d, time |-> timeOfDay(t) - PollSeconds]]) :
        d \in {today(t) - 1, today(t)} }

-----------------------------------------------------------------------------
(* run_once *)

\* variant: the window without its two ends
WindowStrict(delta_sec) == -tolerance < delta_sec /\ delta_sec < LEAD_MINUTES * 60 + tolerance
\* main.py: -tolerance <= delta_sec <= (lead_window + tolerance)
in_window_main(delta_sec) ==
    -tolerance <= delta_sec /\ delta_sec <= LEAD_MINUTES * 60 + tolerance

\* meeting_alerts.py: 0 <= delta_min <= LEAD_MINUTES, delta_min = delta_sec / 60
in_window_meeting_alerts(delta_sec) ==
    0 <= delta_sec /\ delta_sec <= LEAD_MINUTES * 60

in_window(delta_sec) ==
    IF prog = "main" THEN in_window_main(delta_sec)
    ELSE in_window_meeting_alerts(delta_sec)

\* variant: the ledger is not consulted
NoDedup(summary) == FALSE
\* variant: any alert given today holds every later one back
AnyAlertToday(summary) == ~REPEAT_ALERTS /\ seen # EmptyDict
\* not REPEAT_ALERTS and summary in seen
already_alerted(summary) == ~REPEAT_ALERTS /\ summary \in DOMAIN seen

\* the keyword check of the loop body: main.py has one, meeting_alerts.py none
keyword_skip(summary) == prog = "main" /\ is_excluded(summary)

\* variant: the loop goes on after an alert
NoBreak == "loop"
\* break, after the alert
after_alert == "done"

\* variant: the cycle ends after speak without mark_alerted
NoMark == "done"
\* what follows speak: mark_alerted in the normal branch, break in the debug branch
after_speak == IF DEBUG_MODE THEN after_alert ELSE "mark"

\* variant: the status of the item is not looked at
NoCancelledCheck(ev) == ev.dateTime = <<>>
\* the two skips at the head of the loop body
not_an_appointment(ev) == ev.status = "cancelled" \/ ev.dateTime = <<>>

\* variant: the window test placed before the debug branch
WindowBeforeDebug(ev) ==
    IF not_an_appointment(ev) THEN "continue"
    ELSE IF keyword_skip(ev.summary) THEN "continue"
    ELSE IF ~in_window(Head(ev.dateTime) - now) THEN "continue"
    ELSE IF DEBUG_MODE THEN "speak"
    ELSE IF already_alerted(ev.summary) THEN "continue" ELSE "speak"

\* the outcome of one pass of the loop body for the item ev:
\* "continue" or "speak"
loop_body(ev) ==
    IF not_an_appointment(ev) THEN "continue"
    ELSE IF keyword_skip(ev.summary) THEN "continue"
    ELSE IF DEBUG_MODE THEN "speak"
    ELSE IF in_window(Head(ev.dateTime) - now)
         THEN IF already_alerted(ev.summary) THEN "continue" ELSE "speak"
         ELSE "continue"

\* the first invocation: two polls before midnight
FirstRun == 2 * 86400 - 2 * PollSeconds

Init ==
    /\ prog \in {"main", "meeting_alerts"}
    /\ DEBUG_MODE \in BOOLEAN
    /\ RESET_CACHE_ON_START \in BOOLEAN
    /\ REPEAT_ALERTS \in BOOLEAN
    /\ now = FirstRun
    /\ file \in InitLedgers(now)
    /\ ledgerChanged = FALSE
    /\ pc = "idle"
    /\ seen = EmptyDict
    /\ e = NoEvent
    /\ floor = 0
    /\ unread = 0
    /\ speakCalls = 0
    /\ fbCalls = 0
    /\ fbSite = "none"
    /\ failed = FALSE
    /\ delivered = FALSE
    /\ blocked = FALSE
    /\ castIssued = FALSE
    /\ probes = 0
    /\ healthy = FALSE
    /\ inv = NoInvocations
    /\ overlapped = FALSE
    /\ seconds = 0
    /\ phrase = NoPhrase

\* the scheduler starts run_once, which calls start_flask_server(): the
\* listener thread is started
Begin ==
    /\ pc = "idle"
    /\ pc' = "flask_probe"
    /\ UNCHANGED <<config, phraseVars, overlapVars, flaskVars, now, file,
                   ledgerChanged, seen, e, floor, unread, speakCalls,
                   speakVars, castIssued>>

\* for _ in range(50): one pass of the loop. requests.get(url, timeout=0.3)
\* answers 200 (break), or answers something else or raises (sleep, next
\* pass); after the last pass the loop ends whatever the answer
ProbeListener ==
    /\ pc = "flask_probe"
    /\ \E ok \in BOOLEAN :
        /\ healthy' = ok
        /\ probes' = probes + 1
        /\ pc' = IF ok \/ probes + 1 = MaxProbes THEN "flask_on" ELSE "flask_probe"
    /\ UNCHANGED <<config, phraseVars, overlapVars, now, file, ledgerChanged,
                   seen, e, floor, unread, speakCalls, speakVars, castIssued>>

\* logger.info("[HTTP] Flask ON. ..."): start_flask_server returns to run_once
FlaskOn ==
    /\ pc = "flask_on"
    /\ pc' = "service"
    /\ probes' = 0
    /\ healthy' = FALSE
    /\ UNCHANGED <<config, phraseVars, overlapVars, now, file, ledgerChanged,
                   seen, e, floor, unread, speakCalls, speakVars, castIssued>>

\* service = get_calendar_service(), which may raise
GetService ==
    /\ pc = "service"
    /\ \E ok \in BOOLEAN : pc' = IF ok THEN "load" ELSE "except"
    /\ UNCHANGED <<config, phraseVars, overlapVars, flaskVars, now, file,
                   ledgerChanged, seen, e, floor, unread, speakCalls,
                   speakVars, castIssued>>

\* seen = load_seen()
LoadSeen ==
    /\ pc = "load"
    /\ seen' = load_seen(file, now)
    /\ pc' = "reset"
    /\ UNCHANGED <<config, phraseVars, overlapVars, flaskVars, now, file,
                   ledgerChanged, e, floor, unread, speakCalls, speakVars,
                   castIssued>>

\* variant: the reset asked for by its own flag alone
ResetWithoutDebug == RESET_CACHE_ON_START
\* if RESET_CACHE_ON_START and DEBUG_MODE ...
reset_requested == RESET_CACHE_ON_START /\ DEBUG_MODE

\* main.py: if ... and CACHE_FILE.exists(): CACHE_FILE.unlink(); seen = {}
\* meeting_alerts.py: if ...: seen = {}
ResetCache ==
    /\ pc = "reset"
    /\ IF prog = "main"
       THEN IF reset_requested /\ file.exists
            THEN file' = MissingFile /\ seen' = EmptyDict /\ ledgerChanged' = TRUE
            ELSE UNCHANGED <<file, seen, ledgerChanged>>
       ELSE IF reset_requested
            THEN seen' = EmptyDict /\ UNCHANGED <<file, ledgerChanged>>
            ELSE UNCHANGED <<file, seen, ledgerChanged>>
    /\ pc' = "list"
    /\ UNCHANGED <<config, phraseVars, overlapVars, flaskVars, now, e, floor,
                   unread, speakCalls, speakVars, castIssued>>

\* events = service.events().list(...).execute().get("items", []), which may raise
ListEvents ==
    /\ pc = "list"
    /\ \/ /\ pc' = "loop"
          /\ unread' \in 0..MaxEvents
          /\ floor' = now - (tolerance + 1)
       \/ /\ pc' = "except"
          /\ UNCHANGED <<unread, floor>>
    /\ UNCHANGED <<config, phraseVars, overlapVars, flaskVars, now, file,
                   ledgerChanged, seen, e, speakCalls, speakVars, castIssued>>

\* for e in events: one pass of the loop body, up to continue or to the call of speak
NextEvent ==
    /\ pc = "loop"
    /\ unread > 0
    /\ \E ev \in Events(now, floor) :
        /\ e' = ev
        /\ unread' = unread - 1
        /\ IF loop_body(ev) = "speak"
           THEN /\ pc' = "synth"
                /\ speakCalls' = speakCalls + 1
                /\ floor' = 0
           ELSE /\ pc' = "loop"
                /\ floor' = IF ev.dateTime = <<>> THEN floor ELSE Head(ev.dateTime)
                /\ UNCHANGED speakCalls
    /\ fbCalls' = 0
    /\ fbSite' = "none"
    /\ failed' = FALSE
    /\ delivered' = FALSE
    /\ blocked' = FALSE
    /\ castIssued' = FALSE
    /\ UNCHANGED <<config, phraseVars, overlapVars, flaskVars, now, file,
                   ledgerChanged, seen>>

\* variant: the mapping loaded is written back when the loop ends
EndLoopSaves ==
    /\ pc = "loop"
    /\ unread = 0
    /\ pc' = "done"
    /\ e' = NoEvent
    /\ floor' = 0
    /\ file' = save_seen(seen)
    /\ ledgerChanged' = TRUE
    /\ UNCHANGED <<config, phraseVars, overlapVars, flaskVars, now, seen,
                   unread, speakCalls, speakVars, castIssued>>
\* the response is exhausted
EndLoop ==
    /\ pc = "loop"
    /\ unread = 0
    /\ pc' = "done"
    /\ e' = NoEvent
    /\ floor' = 0
    /\ UNCHANGED <<config, phraseVars, overlapVars, flaskVars, now, file,
                   ledgerChanged, seen, unread, speakCalls, speakVars,
                   castIssued>>

-----------------------------------------------------------------------------
(* speak and _speak_fallback (the same statements in both scripts) *)

\* _speak_fallback(text) is called from `site`
CallFallback(site) ==
    /\ pc' = "fb_probe"
    /\ fbSite' = site
    /\ failed' = TRUE
    /\ UNCHANGED <<fbCalls, delivered, blocked>>

\* a statement of speak raises: the handler around it calls the fallback
Raise(site) == CallFallback(site)

\* the statement at pc returns: speak goes on to the statement `next`
Done(next) == pc' = next /\ UNCHANGED speakVars

\* client.synthesize_speech(...): a failure is caught by speak's outer except
Synthesize ==
    /\ pc = "synth"
    /\ \/ Done("host")
       \/ Raise("outer")
    /\ UNCHANGED <<config, phraseVars, overlapVars, flaskVars, now, file,
                   ledgerChanged, seen, e, floor, unread, speakCalls,
                   castIssued>>

\* filepath.write_bytes(response.audio_content)
Host ==
    /\ pc = "host"
    /\ \/ Done("selfcheck")
       \/ Raise("outer")
    /\ UNCHANGED <<config, phraseVars, overlapVars, flaskVars, now, file,
                   ledgerChanged, seen, e, floor, unread, speakCalls,
                   castIssued>>

\* requests.get(url_self, timeout=3): answered, or raises into its own except
SelfCheck ==
    /\ pc = "selfcheck"
    /\ \E ok \in BOOLEAN : pc' = IF ok THEN "probe" ELSE "selfcheck_failed"
    /\ UNCHANGED <<config, phraseVars, overlapVars, flaskVars, now, file,
                   ledgerChanged, seen, e, floor, unread, speakCalls,
                   speakVars, castIssued>>

\* variant: a failed self-check gives the hosted file up for the fallback
SelfCheckAborts == "fb_probe"
\* the statement after the except of the self-check, which only logs
after_selfcheck_failed == "probe"

\* except Exception as e: logger.warning("[HTTP] Self-check falhou ...")
SelfCheckFailed ==
    /\ pc = "selfcheck_failed"
    /\ pc' = after_selfcheck_failed
    /\ UNCHANGED <<config, phraseVars, overlapVars, flaskVars, now, file,
                   ledgerChanged, seen, e, floor, unread, speakCalls,
                   speakVars, castIssued>>

\* if not _tcp_open(NEST_IP, NEST_PORT):
\* (reachable, unreachable, or the socket call raises into the outer except)
ProbeDevice ==
    /\ pc = "probe"
    /\ \/ Done("connect")
       \/ Done("unreachable")
       \/ Raise("outer")
    /\ UNCHANGED <<config, phraseVars, overlapVars, flaskVars, now, file,
                   ledgerChanged, seen, e, floor, unread, speakCalls,
                   castIssued>>

\* logger.warning("Nest Hub inacessível."); _speak_fallback(text); return
Unreachable ==
    /\ pc = "unreachable"
    /\ CallFallback("probe")
    /\ UNCHANGED <<config, phraseVars, overlapVars, flaskVars, now, file,
                   ledgerChanged, seen, e, floor, unread, speakCalls,
                   castIssued>>

\* the statements that send a command to the device
CastCommands ==
    {"connect", "play_media", "play", "fb_connect", "fb_play_media", "fb_play"}

\* variant: play() issued before the wait for the active session
PlayBeforeActive(s) ==
    IF s = "connect" THEN "play_media"
    ELSE IF s = "play_media" THEN "play"
    ELSE IF s = "play" THEN "block"
    ELSE "settle"
\* the statement of the cast after the statement s
NextCastStep(s) ==
    IF s = "connect" THEN "play_media"
    ELSE IF s = "play_media" THEN "block"
    ELSE IF s = "block" THEN "play"
    ELSE "settle"

\* the waits called without a timeout: cast.wait() in speak and in
\* _speak_fallback, block_until_active() in _speak_fallback
UnboundedWaits == {"connect", "fb_connect", "fb_block"}

\* the wait at pc never returns: the device does not become ready or active
WaitForever ==
    /\ pc \in UnboundedWaits
    /\ blocked' = TRUE
    /\ UNCHANGED <<pc, fbCalls, fbSite, failed, delivered>>

\* get_chromecast_from_host + cast.wait(), play_media, block_until_active(timeout=5),
\* play: each returns, or raises into the inner except, which calls the fallback
Cast ==
    /\ pc \in {"connect", "play_media", "block", "play"}
    /\ ~blocked
    /\ castIssued' = (castIssued \/ pc \in CastCommands)
    /\ \/ Done(NextCastStep(pc))
       \/ Raise("cast")
       \/ WaitForever
    /\ UNCHANGED <<config, phraseVars, overlapVars, flaskVars, now, file,
                   ledgerChanged, seen, e, floor, unread, speakCalls>>

\* time.sleep(5): the try block of the cast ends without an exception
Settle ==
    /\ pc = "settle"
    /\ delivered' = TRUE
    /\ pc' = "speak_return"
    /\ UNCHANGED <<config, phraseVars, overlapVars, flaskVars, now, file,
                   ledgerChanged, seen, e, floor, unread, speakCalls, fbCalls,
                   fbSite, failed, blocked, castIssued>>

\* variant: no return after the fallback of an unreachable device
ProbeFallsThrough(site) == IF site = "probe" THEN "connect" ELSE "speak_return"
\* where speak goes on when _speak_fallback returns to `site`: the return
\* after the probe, the end of the inner handler, the end of the outer handler
after_fallback(site) == "speak_return"

\* where speak goes on when a statement of _speak_fallback raises: its own
\* except logs and the function returns to `site`
fallback_except(site) == after_fallback(site)

\* _speak_fallback is entered: if not _tcp_open(NEST_IP, NEST_PORT):
\* (reachable, unreachable, or the socket call raises into the except)
FallbackProbe ==
    /\ pc = "fb_probe"
    /\ fbCalls' = fbCalls + 1
    /\ \/ pc' = "fb_connect"
       \/ pc' = "fb_unreachable"
       \/ pc' = fallback_except(fbSite)
    /\ UNCHANGED <<config, phraseVars, overlapVars, flaskVars, now, file,
                   ledgerChanged, seen, e, floor, unread, speakCalls, fbSite,
                   failed, delivered, blocked, castIssued>>

\* variant: the warning is logged and the fallback casts all the same
NoEarlyReturn(site) == "fb_connect"
\* logger.warning("Nest Hub inacessível (fallback)."); return
fallback_unreachable(site) == after_fallback(site)

\* the fallback gives up: the device does not answer
FallbackUnreachable ==
    /\ pc = "fb_unreachable"
    /\ pc' = fallback_unreachable(fbSite)
    /\ UNCHANGED <<config, phraseVars, overlapVars, flaskVars, now, file,
                   ledgerChanged, seen, e, floor, unread, speakCalls,
                   speakVars, castIssued>>

\* the statement of the fallback cast after the statement s
NextFallbackStep(s) ==
    IF s = "fb_connect" THEN "fb_play_media"
    ELSE IF s = "fb_play_media" THEN "fb_block"
    ELSE IF s = "fb_block" THEN "fb_play"
    ELSE "fb_settle"

\* get_chromecast_from_host + cast.wait(), play_media(tts_url),
\* block_until_active(), play: each returns, or raises into _speak_fallback's
\* own except, which logs
FallbackCast ==
    /\ pc \in {"fb_connect", "fb_play_media", "fb_block", "fb_play"}
    /\ ~blocked
    /\ castIssued' = (castIssued \/ pc \in CastCommands)
    /\ \/ Done(NextFallbackStep(pc))
       \/ pc' = fallback_except(fbSite) /\ UNCHANGED speakVars
       \/ WaitForever
    /\ UNCHANGED <<config, phraseVars, overlapVars, flaskVars, now, file,
                   ledgerChanged, seen, e, floor, unread, speakCalls>>

\* time.sleep(4): the fallback cast is complete
FallbackSettle ==
    /\ pc = "fb_settle"
    /\ delivered' = TRUE
    /\ pc' = after_fallback(fbSite)
    /\ UNCHANGED <<config, phraseVars, overlapVars, flaskVars, now, file,
                   ledgerChanged, seen, e, floor, unread, speakCalls, fbCalls,
                   fbSite, failed, blocked, castIssued>>

\* speak returns to run_once
SpeakReturn ==
    /\ pc = "speak_return"
    /\ pc' = after_speak
    /\ UNCHANGED <<config, phraseVars, overlapVars, flaskVars, now, file,
                   ledgerChanged, seen, e, floor, unread, speakCalls,
                   speakVars, castIssued>>

-----------------------------------------------------------------------------
(* run_once, after speak *)

\* mark_alerted(seen, summary); break
MarkAlerted ==
    /\ pc = "mark"
    /\ seen' = WithEntry(seen, e.summary, now)
    /\ file' = save_seen(seen')
    /\ ledgerChanged' = TRUE
    /\ pc' = after_alert
    /\ UNCHANGED <<config, phraseVars, overlapVars, flaskVars, now, e, floor,
                   unread, speakCalls, speakVars, castIssued>>

\* except Exception as e: logger.error(...): the cycle is given up
Except ==
    /\ pc = "except"
    /\ pc' = "done"
    /\ UNCHANGED <<config, phraseVars, overlapVars, flaskVars, now, file,
                   ledgerChanged, seen, e, floor, unread, speakCalls,
                   speakVars, castIssued>>

\* finally: ...; run_once returns
Return ==
    /\ pc = "done"
    /\ pc' = "idle"
    /\ seen' = EmptyDict
    /\ e' = NoEvent
    /\ floor' = 0
    /\ unread' = 0
    /\ speakCalls' = 0
    /\ fbCalls' = 0
    /\ fbSite' = "none"
    /\ failed' = FALSE
    /\ delivered' = FALSE
    /\ blocked' = FALSE
    /\ castIssued' = FALSE
    /\ ledgerChanged' = FALSE
    /\ UNCHANGED <<config, phraseVars, overlapVars, flaskVars, now, file>>

\* time passes between two invocations
Tick ==
    /\ pc = "idle"
    /\ now < FirstRun + MaxTicks * PollSeconds
    /\ now' = now + PollSeconds
    /\ UNCHANGED <<config, phraseVars, overlapVars, flaskVars, file,
                   ledgerChanged, pc, seen, e, floor, unread, speakCalls,
                   speakVars, castIssued>>

Next ==
    \/ Begin
    \/ ProbeListener
    \/ FlaskOn
    \/ GetService
    \/ LoadSeen
    \/ ResetCache
    \/ ListEvents
    \/ NextEvent
    \/ EndLoop
    \/ Synthesize
    \/ Host
    \/ SelfCheck
    \/ SelfCheckFailed
    \/ ProbeDevice
    \/ Unreachable
    \/ Cast
    \/ Settle
    \/ FallbackProbe
    \/ FallbackUnreachable
    \/ FallbackCast
    \/ FallbackSettle
    \/ SpeakReturn
    \/ MarkAlerted
    \/ Except
    \/ Return
    \/ Tick

Spec == Init /\ [][Next]_vars

\* a process that can take a step takes one: the interpreter keeps running
\* the invocation, and a wait with a timeout ends
FairSpec == Spec /\ WF_vars(Next)

-----------------------------------------------------------------------------
(* _humanize_timedelta, as a function of its argument alone *)

Digits == <<"0", "1", "2", "3", "4", "5", "6", "7", "8", "9">>

\* f"{n}" for an int n >= 0
RECURSIVE str(_)
str(n) == IF n < 10 THEN Digits[n + 1] ELSE str(n \div 10) \o Digits[(n % 10) + 1]

\* max(0, int(math.ceil(seconds))), for seconds = x / Sub
ceil_secs(x) == IF (x + Sub - 1) \div Sub > 0 THEN (x + Sub - 1) \div Sub ELSE 0

\* variant: whole minutes, the remainder dropped
FloorMins(secs) == secs \div 60
\* math.ceil(secs / 60)
ceil_mins(secs) == (secs + 59) \div 60

\* 'minuto' if resto == 1 else 'minutos'
minuto(resto) == IF resto = 1 THEN "minuto" ELSE "minutos"

\* the phrase for mins whole minutes
phrase_of(mins) ==
    IF mins < 1 THEN "menos de um minuto"
    ELSE IF mins = 1 THEN "1 minuto"
    ELSE IF mins < 60 THEN str(mins) \o " minutos"
    ELSE LET horas == mins \div 60
             resto == mins % 60
         IN  IF resto = 0
             THEN str(horas) \o " " \o (IF horas = 1 THEN "hora" ELSE "horas")
             ELSE IF horas = 1
                  THEN "1 hora e " \o str(resto) \o " " \o minuto(resto)
                  ELSE str(horas) \o " horas e " \o str(resto) \o " " \o minuto(resto)

humanize_timedelta(x) == phrase_of(ceil_mins(ceil_secs(x)))

\* lead times from one second before now up to MaxSeconds, in 1/Sub of a second
LeadTimes == (-Sub)..(MaxSeconds * Sub)

PhraseInit ==
    /\ prog = "main"
    /\ DEBUG_MODE = FALSE
    /\ RESET_CACHE_ON_START = FALSE
    /\ REPEAT_ALERTS = FALSE
    /\ now = FirstRun
    /\ file = MissingFile
    /\ ledgerChanged = FALSE
    /\ pc = "idle"
    /\ seen = EmptyDict
    /\ e = NoEvent
    /\ floor = 0
    /\ unread = 0
    /\ speakCalls = 0
    /\ fbCalls = 0
    /\ fbSite = "none"
    /\ failed = FALSE
    /\ delivered = FALSE
    /\ blocked = FALSE
    /\ castIssued = FALSE
    /\ probes = 0
    /\ healthy = FALSE
    /\ inv = NoInvocations
    /\ overlapped = FALSE
    /\ seconds \in LeadTimes
    /\ phrase = NoPhrase

\* lead_str = _humanize_timedelta(seconds)
Humanize ==
    /\ phrase = NoPhrase
    /\ phrase' = humanize_timedelta(seconds)
    /\ UNCHANGED <<config, now, file, ledgerChanged, pc, seen, e, floor,
                   unread, speakCalls, speakVars, castIssued, seconds,
                   flaskVars, overlapVars>>

PhraseNext == Humanize

PhraseSpec == PhraseInit /\ [][PhraseNext]_vars

-----------------------------------------------------------------------------
(* Two invocations of main.py's run_once on one date, normal mode, as the
   external scheduler may start them: one after the other, or the second
   while the first is still running.  Each is followed through the
   statements that read or write CACHE_FILE. *)

Procs == {"first", "second"}

NotStarted == [pc |-> "idle", seen |-> EmptyDict, e |-> NoEvent]

\* the variables of the single invocation
onceVars == <<ledgerChanged, pc, seen, e, floor, unread, speakCalls, speakVars,
              castIssued>>

\* variant: the mapping loaded is not consulted
NoDedupIn(s, summary) == FALSE
\* not REPEAT_ALERTS and summary in seen, for the mapping s of one invocation
already_alerted_in(s, summary) == ~REPEAT_ALERTS /\ summary \in DOMAIN s

\* the loop body of main.py reaches speak for ev, in normal mode, with the
\* mapping s
qualifies(s, ev) ==
    /\ ~not_an_appointment(ev)
    /\ ~is_excluded(ev.summary)
    /\ in_window_main(Head(ev.dateTime) - now)
    /\ ~already_alerted_in(s, ev.summary)

OverlapInit ==
    /\ prog = "main"
    /\ DEBUG_MODE = FALSE
    /\ RESET_CACHE_ON_START \in BOOLEAN
    /\ REPEAT_ALERTS = FALSE
    /\ now = FirstRun
    /\ file \in InitLedgers(now)
    /\ ledgerChanged = FALSE
    /\ pc = "idle"
    /\ seen = EmptyDict
    /\ e = NoEvent
    /\ floor = 0
    /\ unread = 0
    /\ speakCalls = 0
    /\ fbCalls = 0
    /\ fbSite = "none"
    /\ failed = FALSE
    /\ delivered = FALSE
    /\ blocked = FALSE
    /\ castIssued = FALSE
    /\ probes = 0
    /\ healthy = FALSE
    /\ inv = [p \in Procs |-> NotStarted]
    /\ overlapped = FALSE
    /\ seconds = 0
    /\ phrase = NoPhrase

\* the scheduler starts run_once
Start(p) ==
    /\ inv[p].pc = "idle"
    /\ inv' = [inv EXCEPT ![p].pc = "load"]
    /\ overlapped' = (overlapped \/ \E q \in Procs \ {p} : inv[q].pc \notin {"idle", "done"})
    /\ UNCHANGED <<config, phraseVars, flaskVars, onceVars, now, file>>

\* seen = load_seen(); DEBUG_MODE is off, so the reset is not taken
Load(p) ==
    /\ inv[p].pc = "load"
    /\ inv' = [inv EXCEPT ![p].pc = "loop", ![p].seen = load_seen(file, now)]
    /\ UNCHANGED <<config, phraseVars, flaskVars, onceVars, now, file,
                   overlapped>>

\* the loop comes to an item that passes every test: speak(msg) is called
Select(p) ==
    /\ inv[p].pc = "loop"
    /\ \E ev \in Events(now, 0) :
        /\ qualifies(inv[p].seen, ev)
        /\ inv' = [inv EXCEPT ![p].pc = "speak", ![p].e = ev]
    /\ UNCHANGED <<config, phraseVars, flaskVars, onceVars, now, file,
                   overlapped>>

\* the listing raises, or no item of the response passes the tests
NoAlert(p) ==
    /\ inv[p].pc = "loop"
    /\ inv' = [inv EXCEPT ![p].pc = "done"]
    /\ UNCHANGED <<config, phraseVars, flaskVars, onceVars, now, file,
                   overlapped>>

\* speak(msg) returns
Spoken(p) ==
    /\ inv[p].pc = "speak"
    /\ inv' = [inv EXCEPT ![p].pc = "mark"]
    /\ UNCHANGED <<config, phraseVars, flaskVars, onceVars, now, file,
                   overlapped>>

\* mark_alerted(seen, summary), then break and the end of run_once
Mark(p) ==
    /\ inv[p].pc = "mark"
    /\ LET s == WithEntry(inv[p].seen, inv[p].e.summary, now)
       IN  /\ inv' = [inv EXCEPT ![p].pc = "done", ![p].seen = s]
           /\ file' = save_seen(s)
    /\ UNCHANGED <<config, phraseVars, flaskVars, onceVars, now, overlapped>>

\* time passes, within the date
Later ==
    /\ today(now + PollSeconds) = today(now)
    /\ now' = now + PollSeconds
    /\ UNCHANGED <<config, phraseVars, flaskVars, onceVars, overlapVars,
                   file>>

OverlapNext ==
    \/ \E p \in Procs : Start(p)
    \/ \E p \in Procs : Load(p)
    \/ \E p \in Procs : Select(p)
    \/ \E p \in Procs : NoAlert(p)
    \/ \E p \in Procs : Spoken(p)
    \/ \E p \in Procs : Mark(p)
    \/ Later

OverlapSpec == OverlapInit /\ [][OverlapNext]_vars

-----------------------------------------------------------------------------
(* Properties *)

FallbackPcs ==
    {"fb_probe", "fb_unreachable", "fb_connect", "fb_play_media", "fb_block",
     "fb_play", "fb_settle"}

\* the statements in the tuple t
Range(t) == {t[i] : i \in 1..Len(t)}

SpeakPcs == {"synth", "host", "selfcheck", "selfcheck_failed", "probe",
             "unreachable", "connect", "play_media", "block", "play", "settle",
             "fb_probe", "fb_unreachable", "fb_connect",
             "fb_play_media", "fb_block", "fb_play", "fb_settle", "speak_return"}

\* speak has been called for the event e in this cycle
Alerting == pc \in SpeakPcs \cup {"mark"} \/ (pc = "done" /\ speakCalls >= 1)

\* the durable ledger holds an entry for title k dated on the day of t
LedgerHasToday(k, t) ==
    /\ file.exists
    /\ file.wellformed
    /\ k \in DOMAIN file.data
    /\ file.data[k].date = today(t)

\* seconds from now to the start of the timed event e
Delta == Head(e.dateTime) - now

\* title t holds one of the configured keywords, whatever the case of its letters
HasKeyword(t) ==
    \E n \in 1..Len(EXCLUDE_KEYWORDS) :
        LET k == EXCLUDE_KEYWORDS[n] IN
        \E i \in 0..(Len(t) - Len(k)) :
            \A j \in 1..Len(k) : lower(<<t[i + j]>>) = <<k[j]>>

\* the titles of the calendar that hold a keyword
KeywordTitles == {t \in Titles : HasKeyword(t)}

\* an event the loop reads and may alert: not cancelled, with a start time
Appointment == e.status = "confirmed" /\ e.dateTime # <<>>

\* C1: in main.py, normal mode, REPEAT_ALERTS off, speak is never running for
\* a title that the ledger already holds with today's date, whatever the start
\* time of the event: once recorded, a title is not spoken again that day.
C1_NoSecondAlertForTitle ==
    (prog = "main" /\ ~DEBUG_MODE /\ ~REPEAT_ALERTS /\ pc \in SpeakPcs)
        => ~LedgerHasToday(e.summary, now)

\* a later cycle, one poll after the cycle that recorded Standup, reads another
\* Standup event (it starts after the window of the earlier cycle) inside the
\* window, and passes over it
C1_Witness ==
    /\ prog = "main" /\ ~DEBUG_MODE /\ ~REPEAT_ALERTS
    /\ pc = "loop"
    /\ e = [status |-> "confirmed", dateTime |-> <<now + LEAD_MINUTES * 60 + 60>>,
            summary |-> Standup]
    /\ now = FirstRun + PollSeconds
    /\ today(FirstRun) = today(now)
    /\ LedgerHasToday(Standup, now)
    /\ file.data[Standup].time = timeOfDay(FirstRun)
    /\ speakCalls = 0

\* C2: one invocation of run_once calls speak at most once, in every mode and
\* in both scripts.
C2_AtMostOneSpeak == speakCalls <= 1

\* speak was called and the response holds further items, which are not read
C2_Witness == pc = "done" /\ speakCalls = 1 /\ unread > 0

\* C3: in main.py, normal mode, an appointment without keyword that is not
\* deduplicated is alerted iff -60 <= delta <= LEAD_MINUTES*60 + 60.
C3_WindowMain ==
    (prog = "main" /\ ~DEBUG_MODE /\ Appointment /\ e.summary \notin KeywordTitles) =>
        /\ Alerting => (-60 <= Delta /\ Delta <= LEAD_MINUTES * 60 + 60)
        /\ (pc = "loop" /\ (REPEAT_ALERTS \/ e.summary \notin DOMAIN seen))
               => ~(-60 <= Delta /\ Delta <= LEAD_MINUTES * 60 + 60)

\* the event that starts exactly LEAD_MINUTES*60 + 60 seconds from now is alerted
C3_Witness ==
    /\ prog = "main" /\ ~DEBUG_MODE
    /\ pc = "synth"
    /\ Appointment
    /\ Delta = LEAD_MINUTES * 60 + 60

\* C4: in main.py, in every mode, speak is never called for an event whose
\* title holds an exclusion keyword in any case, and no such title enters the
\* ledger.
C4_KeywordNeverAlertedMain ==
    prog = "main" =>
        /\ Alerting => e.summary \notin KeywordTitles
        /\ \A t \in KeywordTitles : t \notin DOMAIN seen /\ t \notin DOMAIN file.data

\* in debug mode the loop has read "Team Lunch", not cancelled and timed, and
\* goes on to the next item
C4_Witness ==
    /\ prog = "main" /\ DEBUG_MODE
    /\ pc = "loop"
    /\ Appointment
    /\ e.summary = TeamLunch
    /\ speakCalls = 0

\* C5: in meeting_alerts.py, speak is never called for an event whose title
\* holds an exclusion keyword.
C5_KeywordNeverAlertedMeetingAlerts ==
    prog = "meeting_alerts" => (Alerting => e.summary \notin KeywordTitles)

\* C6: _speak_fallback runs at most once in a speak call, exactly once when
\* the call met a failure before a completed cast, and speak returns to
\* run_once whatever failed: the statement after speak is reached.
C6_FallbackExactlyOnce ==
    /\ fbCalls <= 1
    /\ (pc \in {"speak_return", "mark", "done"} /\ speakCalls = 1)
           => fbCalls = (IF failed THEN 1 ELSE 0)
    /\ (pc = "done" /\ speakCalls = 1 /\ ~DEBUG_MODE) => e.summary \in DOMAIN seen

\* speak returns after a failure and a fallback that failed as well
C6_Witness ==
    pc = "speak_return" /\ failed /\ fbCalls = 1 /\ ~delivered /\ fbSite = "outer"

\* C7: the title is recorded only when the delivery succeeded.
C7_RecordOnlyOnDelivery ==
    (pc = "done" /\ speakCalls = 1 /\ ~delivered) =>
        ~(LedgerHasToday(e.summary, now) /\ file.data[e.summary].time = timeOfDay(now))

C9_DebugFirstEvent ==
    (prog = "main" /\ DEBUG_MODE) =>
        /\ (pc = "loop" /\ e # NoEvent)
               => (e.status = "cancelled" \/ e.dateTime = <<>> \/ e.summary \in KeywordTitles)
        /\ Alerting => (Appointment /\ e.summary \notin KeywordTitles)
        /\ pc = "loop" => speakCalls = 0

\* debug mode speaks for an event outside the alert window whose title is in
\* today's ledger
C9_Witness ==
    /\ prog = "main" /\ DEBUG_MODE
    /\ pc = "synth"
    /\ Delta = LEAD_MINUTES * 60 + 61
    /\ LedgerHasToday(e.summary, now)

\* C10: in both scripts and every mode, speak is never called for a cancelled
\* or an all-day event; after reading one the loop is at its head again, with
\* nothing spoken and nothing recorded by this pass.
C10_CancelledAndAllDaySkipped ==
    /\ Alerting => Appointment
    /\ (e # NoEvent /\ ~Appointment) => (pc = "loop" /\ speakCalls = 0)

\* a cancelled event inside the window is passed over and an item is left
C10_Witness ==
    /\ pc = "loop"
    /\ e.status = "cancelled"
    /\ e.dateTime = <<now>>
    /\ unread > 0

\* C11: for every lead time d with 0 <= d < 60 seconds, _humanize_timedelta
\* returns "menos de um minuto".
C11_UnderAMinute ==
    (phrase # NoPhrase /\ 0 <= seconds /\ seconds < 60 * Sub)
        => phrase = "menos de um minuto"

\* d rounded up to the next whole minute: the least m with 60 m >= d
RoundedUp ==
    CHOOSE m \in 0..(MaxSeconds \div 60 + 1) :
        60 * Sub * m >= seconds /\ 60 * Sub * (m - 1) < seconds

\* C12: for every lead time d >= 60 seconds, with m = d rounded up to the next
\* whole minute, the phrase is "1 minuto" for m = 1, "<m> minutos" for
\* 2 <= m < 60, "<H> hora(s)" for m = 60 H, and "<H> hora(s) e <M> minuto(s)"
\* otherwise, singular iff the number is 1; 90 minutes give "1 hora e 30 minutos".
C12_RoundedUpPhrase ==
    (phrase # NoPhrase /\ seconds >= 60 * Sub) =>
        LET m == RoundedUp
            H == m \div 60
            M == m % 60
            horas == str(H) \o (IF H = 1 THEN " hora" ELSE " horas")
            minutos == str(M) \o (IF M = 1 THEN " minuto" ELSE " minutos")
        IN  /\ m = 1 => phrase = "1 minuto"
            /\ (2 <= m /\ m < 60) => phrase = str(m) \o " minutos"
            /\ (m >= 60 /\ M = 0) => phrase = horas
            /\ (m >= 60 /\ M # 0) => phrase = horas \o " e " \o minutos
            /\ m = 2 => phrase = "2 minutos"
            /\ m = 59 => phrase = "59 minutos"
            /\ m = 60 => phrase = "1 hora"
            /\ m = 61 => phrase = "1 hora e 1 minuto"
            /\ m = 90 => phrase = "1 hora e 30 minutos"
            /\ m = 120 => phrase = "2 horas"
            /\ m = 121 => phrase = "2 horas e 1 minuto"
            /\ m = 122 => phrase = "2 horas e 2 minutos"

\* a lead time just above 89 minutes is put into words as 90 minutes
C12_Witness ==
    /\ seconds = 89 * 60 * Sub + 1
    /\ phrase = "1 hora e 30 minutos"

\* C13: every call of speak returns in the end, whatever the synthesis
\* service, the local host and the device do.
C13_SpeakReturns == (pc = "synth") ~> (pc = "speak_return")

\* C14: when the probe of speak finds the device unreachable, speak sends no
\* command to it and calls the fallback; when the fallback's probe finds it
\* unreachable too, the fallback returns without sending a command, and speak
\* returns to run_once with nothing cast and nothing delivered.
C14_UnreachableNoCast ==
    /\ [](pc = "unreachable" => ~castIssued)
    /\ [][pc = "unreachable"
            => (pc' = "fb_probe" /\ fbSite' = "probe" /\ ~castIssued')]_vars
    /\ []((pc = "fb_unreachable" /\ fbSite = "probe") => (~castIssued /\ fbCalls = 1))
    /\ [][pc = "fb_unreachable"
            => (pc' = "speak_return" /\ castIssued' = castIssued /\ ~delivered')]_vars
    /\ []((pc = "speak_return" /\ fbSite = "probe" /\ ~castIssued)
            => (fbCalls = 1 /\ ~delivered))

\* both probes of one speak call found the device unreachable
C14_Witness ==
    /\ pc = "fb_unreachable"
    /\ fbSite = "probe"
    /\ fbCalls = 1
    /\ ~castIssued

\* C15: a failed self-check changes nothing but the log: speak goes on to the
\* probe of the device in the state a successful self-check would have left,
\* with no failure noted and no fallback called, and from the probe the cast
\* follows when the device is reachable.
C15_SelfCheckNotFatal ==
    /\ [](pc = "selfcheck_failed" => (~failed /\ fbCalls = 0 /\ ~castIssued))
    /\ [][pc = "selfcheck" => (pc' \in {"probe", "selfcheck_failed"}
                               /\ UNCHANGED <<speakVars, castIssued>>)]_vars
    /\ [][pc = "selfcheck_failed"
            => (pc' = "probe" /\ UNCHANGED <<speakVars, castIssued, seen, file, e>>)]_vars
    /\ [][pc = "probe" => pc' \in {"connect", "unreachable", "fb_probe"}]_vars

\* the self-check of a hosted file has failed
C15_Witness ==
    /\ pc = "selfcheck_failed"
    /\ ~failed
    /\ fbCalls = 0

\* the stages of speak, in the order of the claim
StageOrder ==
    <<"synth", "host", "selfcheck", "probe", "connect", "play_media", "block",
      "play", "settle", "speak_return">>

\* C16: as long as nothing fails, speak goes through synthesize, write,
\* self-check, probe, connect, play_media, block_until_active, play, settle, in
\* this order; a call that returns without a failure has delivered and has not
\* called the fallback; and the fallback never runs after a completed cast.
C16_StageOrder ==
    /\ [][(pc \in Range(StageOrder) /\ pc # "speak_return" /\ pc' # pc
           /\ pc' \notin {"selfcheck_failed", "unreachable", "fb_probe"})
            => \E i \in 1..(Len(StageOrder) - 1) :
                   StageOrder[i] = pc /\ StageOrder[i + 1] = pc']_vars
    /\ []((pc = "speak_return" /\ ~failed)
            => (fbCalls = 0 /\ delivered /\ castIssued))
    /\ [](pc \in FallbackPcs => (failed /\ ~delivered))
    /\ [][pc = "settle" => (pc' = "speak_return" /\ fbCalls' = 0)]_vars

\* a call of speak in which nothing failed is about to return
C16_Witness ==
    /\ pc = "speak_return"
    /\ ~failed
    /\ delivered
    /\ fbCalls = 0

\* the invocation has loaded the ledger and not returned yet
Loaded == pc \notin {"idle", "service", "load", "except", "done"}

\* the loop has passed over e, an appointment inside the alert window that no
\* keyword excludes
PassedOverInWindow ==
    /\ pc = "loop"
    /\ Appointment
    /\ in_window(Delta)
    /\ ~(prog = "main" /\ e.summary \in KeywordTitles)

\* C17: what load_seen returns is the stored entries dated today, no more and
\* no fewer; run_once never holds an entry of another date, and in normal mode
\* passes over an event as already alerted only if the file holds its title
\* with today's date; load_seen leaves the file as it is.
C17_LoadKeepsToday ==
    /\ []((pc = "reset" /\ file.exists /\ file.wellformed)
            => /\ DOMAIN seen \subseteq DOMAIN file.data
               /\ \A k \in DOMAIN file.data :
                    IF file.data[k].date = today(now)
                    THEN k \in DOMAIN seen /\ seen[k] = file.data[k]
                    ELSE k \notin DOMAIN seen)
    /\ [](Loaded => \A k \in DOMAIN seen : seen[k].date = today(now))
    /\ []((PassedOverInWindow /\ ~DEBUG_MODE) => LedgerHasToday(e.summary, now))
    /\ [][pc = "load" => (pc' = "reset" /\ file' = file)]_vars

\* Standup was alerted and recorded before midnight by an earlier cycle and is
\* alerted again in the first cycle of the next day
C17_Witness ==
    /\ pc = "synth"
    /\ ~DEBUG_MODE /\ ~REPEAT_ALERTS
    /\ e.summary = Standup
    /\ today(now) = today(FirstRun) + 1
    /\ file.exists /\ file.wellformed
    /\ Standup \in DOMAIN file.data
    /\ file.data[Standup] = [date |-> today(FirstRun), time |-> timeOfDay(FirstRun)]
    /\ seen = EmptyDict

\* C18: from a ledger file that is missing or cannot be read load_seen returns
\* the empty mapping, and the cycle goes on with it: no event is passed over as
\* already alerted.
C18_CorruptLedgerIsEmpty ==
    /\ []((pc = "reset" /\ (~file.exists \/ ~file.wellformed)) => seen = EmptyDict)
    /\ []((Loaded /\ pc # "done" /\ (~file.exists \/ ~file.wellformed)) => seen = EmptyDict)
    /\ []((PassedOverInWindow /\ ~DEBUG_MODE) => (file.exists /\ file.wellformed))
    /\ [][pc = "load" => pc' = "reset"]_vars

\* the ledger file is unreadable and holds Standup among what can be made out
\* of it; the cycle alerts for Standup
C18_Witness ==
    /\ pc = "synth"
    /\ ~DEBUG_MODE /\ ~REPEAT_ALERTS
    /\ file.exists /\ ~file.wellformed
    /\ e.summary = Standup
    /\ Standup \in DOMAIN file.data
    /\ file.data[Standup].date = today(now)

\* C19, as stated: when get_calendar_service or the listing raises, the cycle
\* has read no event, called speak for none and not changed the ledger file.
C19_AbortLeavesLedger ==
    pc = "except" => (e = NoEvent /\ speakCalls = 0 /\ ~ledgerChanged)

\* C19, amended: the same, but for the reset of main.py, which has deleted the
\* ledger file before the listing when DEBUG_MODE and RESET_CACHE_ON_START
\* are both set; nothing else changes the file in a cycle that is given up.
C19_AbortAfterReset ==
    /\ [](pc = "except" =>
            /\ e = NoEvent
            /\ speakCalls = 0
            /\ ledgerChanged =>
                 (prog = "main" /\ DEBUG_MODE /\ RESET_CACHE_ON_START /\ file = MissingFile))
    /\ [][pc = "except" => (pc' = "done" /\ file' = file)]_vars
    /\ [][(pc = "done" /\ speakCalls = 0) => (pc' = "idle" /\ file' = file)]_vars

\* the listing raised in normal mode, the ledger file holding an entry
C19_Witness ==
    /\ pc = "except"
    /\ ~DEBUG_MODE /\ RESET_CACHE_ON_START
    /\ seen # EmptyDict
    /\ file.exists
    /\ ~ledgerChanged

\* C20: in normal mode with REPEAT_ALERTS an event inside the window is never
\* passed over, whether its title is in the ledger or not; recording a title
\* the mapping already holds replaces its entry by one with the current time
\* and leaves the titles of the mapping and every other entry as they were,
\* and the file holds the mapping.
C20_RepeatOverwrites ==
    /\ []((~DEBUG_MODE /\ REPEAT_ALERTS) => ~PassedOverInWindow)
    /\ [][(pc = "mark" /\ e.summary \in DOMAIN seen) =>
            /\ DOMAIN seen' = DOMAIN seen
            /\ Cardinality(DOMAIN file'.data) = Cardinality(DOMAIN seen)
            /\ seen'[e.summary] = [date |-> today(now), time |-> timeOfDay(now)]
            /\ \A k \in DOMAIN seen \ {e.summary} : seen'[k] = seen[k]
            /\ file'.data = seen']_vars

\* Standup, recorded one poll earlier on the same day with Review beside it,
\* has been delivered again and is about to be recorded again
C20_Witness ==
    /\ pc = "mark"
    /\ ~DEBUG_MODE /\ REPEAT_ALERTS
    /\ e.summary = Standup
    /\ DOMAIN seen = {Standup, Review}
    /\ seen[Standup] = [date |-> today(now), time |-> timeOfDay(now) - PollSeconds]
    /\ now = FirstRun + PollSeconds
    /\ file.data = seen

\* the titles the durable ledger holds
LedgerTitles == IF file.exists /\ file.wellformed THEN DOMAIN file.data ELSE {}

\* C21: in both scripts the reset at the start of run_once happens only with
\* RESET_CACHE_ON_START and DEBUG_MODE both set, and after it the durable
\* ledger holds no entries.
C21_ResetEmptiesLedger ==
    pc = "list" =>
        IF RESET_CACHE_ON_START /\ DEBUG_MODE
        THEN LedgerTitles = {} /\ seen = EmptyDict
        ELSE ~ledgerChanged /\ seen = load_seen(file, now)

\* C22: in normal mode meeting_alerts.py does not pass over an event that
\* starts between LEAD_MINUTES*60 and LEAD_MINUTES*60 + 60 seconds from now
\* unless its title is deduplicated.
C22_ToleranceMeetingAlerts ==
    (prog = "meeting_alerts" /\ ~DEBUG_MODE /\ pc = "loop" /\ Appointment
     /\ LEAD_MINUTES * 60 <= Delta /\ Delta <= LEAD_MINUTES * 60 + 60)
        => (~REPEAT_ALERTS /\ e.summary \in DOMAIN seen)

\* C23: start_flask_server returns only once the listener has answered its
\* liveness check, after at most 50 probes.
C23_ListenerLiveOnReturn ==
    /\ pc = "flask_on" => healthy
    /\ probes <= MaxProbes

\* e may be alerted by main.py in normal mode: an appointment no keyword
\* excludes, inside the window, and not in today's ledger unless alerts repeat
Eligible ==
    /\ Appointment
    /\ e.summary \notin KeywordTitles
    /\ -60 <= Delta /\ Delta <= LEAD_MINUTES * 60 + 60
    /\ REPEAT_ALERTS \/ ~LedgerHasToday(e.summary, now)

\* C24: in main.py, normal mode, every event the loop passes over is not
\* eligible and the event speak is called for is; the pass ends only with an
\* alert or with the last event, so an event passed over as already alerted
\* does not end it.
C24_FirstEligibleAlerted ==
    /\ []((prog = "main" /\ ~DEBUG_MODE /\ e # NoEvent) =>
            /\ pc = "loop" => ~Eligible
            /\ pc \in SpeakPcs => Eligible)
    /\ [][(prog = "main" /\ ~DEBUG_MODE /\ pc = "loop" /\ pc' # "loop")
            => (pc' = "synth" \/ (unread = 0 /\ pc' = "done"))]_vars

\* an event inside the window whose title is in today's ledger has been passed
\* over, Review is not in the ledger, and the response holds a further item
C24_Witness ==
    /\ prog = "main" /\ ~DEBUG_MODE /\ ~REPEAT_ALERTS
    /\ pc = "loop"
    /\ Appointment
    /\ e.summary = Standup
    /\ Delta = 0
    /\ LedgerHasToday(Standup, now)
    /\ Review \notin DOMAIN seen
    /\ unread = 1

\* C25: a normal-mode cycle that reaches the end of the response without an
\* alert has called neither speak nor _speak_fallback, and no step of it, from
\* the start of run_once to its return, has changed the ledger file.
C25_NoAlertNoWrite ==
    /\ []((~DEBUG_MODE /\ pc = "loop")
            => (speakCalls = 0 /\ fbCalls = 0 /\ ~ledgerChanged))
    /\ [][(~DEBUG_MODE /\ pc = "loop" /\ pc' = "done")
            => (file' = file /\ speakCalls' = 0 /\ fbCalls' = 0 /\ ~ledgerChanged')]_vars
    /\ [][(~DEBUG_MODE /\ pc = "done" /\ speakCalls = 0)
            => (pc' = "idle" /\ file' = file)]_vars
    /\ [][(~DEBUG_MODE /\ pc # "mark") => file' = file]_vars

\* the last event of the response, outside the window, has been passed over;
\* the file holds Standup with yesterday's date
C25_Witness ==
    /\ ~DEBUG_MODE
    /\ pc = "loop"
    /\ unread = 0
    /\ Appointment
    /\ Delta = LEAD_MINUTES * 60 + tolerance + 1
    /\ file.exists /\ file.wellformed
    /\ Standup \in DOMAIN file.data
    /\ file.data[Standup].date = today(now) - 1
    /\ seen = EmptyDict

\* speak has been called by invocation p
Spoke(p) == inv[p].pc \in {"speak", "mark", "done"} /\ inv[p].e # NoEvent

\* invocation p has written its entry
Marked(p) == inv[p].pc = "done" /\ inv[p].e # NoEvent

\* no title spoken by both invocations, and the file holds, with today's date,
\* the title of every invocation that has written its entry
OncePerTitle ==
    /\ \A p, q \in Procs :
        (p # q /\ Spoke(p) /\ Spoke(q)) => inv[p].e.summary # inv[q].e.summary
    /\ \A p \in Procs : Marked(p) => LedgerHasToday(inv[p].e.summary, now)

\* C26 as stated: for any interleaving of the two invocations, those that
\* overlap included, speak is called for a title by at most one of them and
\* no write discards the entry the other wrote.
C26_AnyInterleaving == OncePerTitle

\* C26: when neither invocation starts while the other is running, speak is
\* called for a title by at most one of them and the file keeps the entries of
\* both.
C26_OneAtATime == ~overlapped => OncePerTitle

\* one after the other, the first has alerted Standup and the second Review, and
\* the file holds both entries
C26_Witness ==
    /\ ~overlapped
    /\ Marked("first") /\ Marked("second")
    /\ inv["first"].e.summary = Standup
    /\ inv["second"].e.summary = Review
    /\ DOMAIN file.data = {Standup, Review}

=============================================================================
